---- MODULE Spec2Model ----
(***************************************************************************)
(* State-machine model of the MedReserve browser client: the booking page  *)
(* (src/src/pages/BookingPage.tsx), the slot query of the patient home     *)
(* page (src/src/pages/UserHome.tsx), the doctor directory cache           *)
(* (AppContextProvider, src/unnamed/part_003) and the admin doctor form    *)
(* (src/src/pages/AdminDashboard.tsx).                                     *)
(*                                                                         *)
(* Execution is single-threaded and event-driven: every action below is    *)
(* one event-loop turn, i.e. the synchronous part of a handler up to its   *)
(* first await, or the continuation that runs when an awaited network call *)
(* settles.  Network calls in flight are kept in collections; they settle  *)
(* in any order.  A component that is unmounted loses its state; the          *)
(* continuations of its calls still run, but their setState calls have no  *)
(* effect (the call is marked live |-> FALSE).                             *)
(***************************************************************************)
EXTENDS Integers, Sequences, FiniteSets, Bags, TLC

VARIABLES
    \* ---- BookingPage (BookingPage.tsx:24-38) ----
    bpMounted,          \* the /booking/:slotId route is rendered
    slotId,             \* useParams().slotId, a string
    name,               \* form state, sequence of characters
    isSubmitting,
    error,              \* string or NULL
    booking,            \* {} for null, {b} for a Booking record b
    showSuccessModal,
    bookCalls,          \* bookAppointment calls in flight, a bag of requests
    \* ---- ToastContext ----
    toasts,             \* notification queue, oldest first
    \* ---- UserHome (UserHome.tsx:24-29) ----
    homeMounted,
    selectedDoctorId,   \* 0 for undefined
    slots,
    loadingSlots,
    slotCalls,          \* getDoctorSlots calls in flight
    \* ---- AppContextProvider (part_003:91-93) ----
    started,            \* number of times the mount effect has run
    doctors,
    loadingDoctors,
    errorDoctors,       \* string or NULL
    doctorCalls,        \* getDoctors calls in flight
    \* ---- AdminDashboard (AdminDashboard.tsx:41-45) ----
    adminMounted,
    doctorName,
    isCreatingDoctor,
    doctorError,
    doctorSuccess,
    createCalls,        \* createAdminDoctor calls in flight
    \* ---- Toast (BookingSuccessModal.tsx:109-116) ----
    now,                \* the clock, in the time units of setTimeout
    toastMounted,       \* per Toast: it is rendered
    toastShownAt,       \* per Toast: the time it was mounted
    toastOnClose,       \* per Toast: identity of the onClose prop of the last render
    timers,             \* pending setTimeout timers
    closed,             \* log of the onClose invocations
    \* ---- generateICS (part_002:44-68) ----
    icsBooking,         \* the arguments of the export
    icsSlot,            \* a slot, or Absent
    icsDoctor,          \* a doctor, or Absent
    icsExports,         \* the payloads generated so far, with the time of the call
    \* ---- fetchApi (part_000:15-39) ----
    apiResponse,        \* per endpoint: the HTTP response the call received
    apiOutcome,         \* per endpoint: the outcome of the call
    \* ---- AdminDashboard, Create Slot form (AdminDashboard.tsx:48-53) ----
    slotDoctorId,       \* selectedDoctorId of the dashboard: the option value
    startTime,          \* <<>> for '', <<t>> for a datetime-local value
    durationMinutes,    \* the text of the number input
    isCreatingSlot,
    slotError,
    slotSuccess,
    slotCreateCalls     \* createAdminSlot calls in flight

bookingVars == <<bpMounted, slotId, name, isSubmitting, error, booking,
                 showSuccessModal, bookCalls>>
homeVars    == <<homeMounted, selectedDoctorId, slots, loadingSlots, slotCalls>>
cacheVars   == <<started, doctors, loadingDoctors, errorDoctors, doctorCalls>>
adminVars   == <<adminMounted, doctorName, isCreatingDoctor, doctorError,
                 doctorSuccess, createCalls>>
toastVars   == <<now, toastMounted, toastShownAt, toastOnClose, timers, closed>>
icsVars     == <<icsBooking, icsSlot, icsDoctor, icsExports>>
apiVars     == <<apiResponse, apiOutcome>>
slotFormVars == <<slotDoctorId, startTime, durationMinutes, isCreatingSlot,
                  slotError, slotSuccess, slotCreateCalls>>
extVars     == <<toastVars, icsVars, apiVars, slotFormVars>>
vars == <<bookingVars, toasts, homeVars, cacheVars, adminVars, extVars>>

(***************************************************************************)
(* Bounds of the model.                                                    *)
(***************************************************************************)
MaxNameLen   == 2     \* longest patient name typed
MaxBookCalls == 2     \* bookAppointment calls in flight at once
MaxToasts    == 1     \* notifications queued at once
MaxSlotCalls == 2     \* getDoctorSlots calls in flight at once
MaxDoctorCalls == 2   \* getDoctors calls in flight at once
MaxCreateCalls == 1   \* createAdminDoctor calls in flight at once
MaxTime      == 6000  \* the clock stops here
MaxExports   == 2     \* calendar exports of one ticket
MaxSlotCreateCalls == 1  \* createAdminSlot calls in flight at once

(***************************************************************************)
(* Values.                                                                 *)
(***************************************************************************)
NULL == "NULL"                      \* JavaScript null (never a message text)
NaN  == -1                          \* Number() of a non-numeric string

Chars == {" ", "J"}                 \* a blank and a letter

RECURSIVE SeqsUpTo(_, _)
SeqsUpTo(S, n) ==
    IF n = 0 THEN {<<>>}
    ELSE LET shorter == SeqsUpTo(S, n - 1)
         IN  shorter \cup {Append(s, c) : s \in {t \in shorter : Len(t) = n - 1}, c \in S}

Names  == SeqsUpTo(Chars, MaxNameLen)
DoctorNames == {<<>>, <<" ">>, <<"J">>}

\* String.prototype.trim: drop leading and trailing blanks.
RECURSIVE TrimStart(_)
TrimStart(s) ==
    IF s = <<>> THEN <<>>
    ELSE IF Head(s) = " " THEN TrimStart(Tail(s)) ELSE s

RECURSIVE TrimEnd(_)
TrimEnd(s) ==
    IF s = <<>> THEN <<>>
    ELSE IF s[Len(s)] = " " THEN TrimEnd(SubSeq(s, 1, Len(s) - 1)) ELSE s

Trim(s) == TrimEnd(TrimStart(s))

\* JavaScript truthiness of a string-or-null value.
Truthy(v) == v # NULL /\ v # ""

\* Route parameters the booking page can be opened with, and Number() of them.
SlotIdParams == {"10", "abc"}
NumberOf(s) == IF s = "10" THEN 10 ELSE NaN

\* Remove the i-th element of a sequence.
RemoveAt(s, i) == SubSeq(s, 1, i - 1) \o SubSeq(s, i + 1, Len(s))

\* Mark every call of a sequence as belonging to an unmounted component.
Orphan(calls) == [i \in 1..Len(calls) |-> [calls[i] EXCEPT !.live = FALSE]]

\* The same for a bag of calls.
OrphanBag(calls) ==
    LET Dead(c)  == [c EXCEPT !.live = FALSE]
        Alive(c) == [c EXCEPT !.live = TRUE]
        Count(c) == IF c \in DOMAIN calls THEN calls[c] ELSE 0
    IN  [o \in {Dead(c) : c \in DOMAIN calls} |-> Count(o) + Count(Alive(o))]

\* The calls of a bag whose component is still mounted.
LiveCalls(calls) == [c \in {d \in DOMAIN calls : d.live} |-> calls[c]]

InFlight(calls) == BagCardinality(calls)

(***************************************************************************)
(* API client (src/unnamed/part_000).                                      *)
(***************************************************************************)
\* fetchApi, part_000:30-32: a non-2xx response is thrown as
\* Error(`API Error: ${status} ${statusText}`).
ApiErrorMessage(status) ==
    CASE status = 409 -> "API Error: 409 Conflict"
      [] status = 500 -> "API Error: 500 Internal Server Error"
      [] OTHER        -> "API Error"

\* Values an awaited API call can reject with (part_000:35-38 rethrows
\* whatever was thrown; the callers catch a value of unknown type): the
\* Error of a non-2xx response, the TypeError fetch throws on a transport
\* failure, an Error whose message is empty, or a value that is not an
\* Error.
RejectValues ==
    { [kind |-> "api",       isError |-> TRUE,  message |-> ApiErrorMessage(409)],
      [kind |-> "transport", isError |-> TRUE,  message |-> "Failed to fetch"],
      [kind |-> "other",     isError |-> TRUE,  message |-> ""],
      [kind |-> "other",     isError |-> FALSE, message |-> ""] }

IsApiOrTransportFailure(e) == e.kind \in {"api", "transport"}

ApiFailures == {e \in RejectValues : IsApiOrTransportFailure(e)}

BookingStatuses == {"PENDING", "CONFIRMED", "FAILED"}

\* The Booking the backend answers a bookAppointment call with
\* (types/index.ts:21-29, part_000:61-72).
BookingFor(call, st) ==
    [id |-> 99, slot_id |-> call.slot, patient_name |-> call.name, status |-> st]

(***************************************************************************)
(* Notification queue.                                                     *)
(***************************************************************************)
\* showToast(message, type): enqueue one notification.
ShowToast(q, message, type) == Append(q, [message |-> message, type |-> type])

\* A notification leaves the queue (its timer fired or the user closed it).
DismissToast(i) ==
    /\ i \in 1..Len(toasts)
    /\ toasts' = RemoveAt(toasts, i)
    /\ UNCHANGED <<bookingVars, homeVars, cacheVars, adminVars, extVars>>

(***************************************************************************)
(* BookingPage.                                                            *)
(***************************************************************************)
\* The useState initial values, BookingPage.tsx:33-38.
BookingPageFresh ==
    /\ name' = <<>>
    /\ isSubmitting' = FALSE
    /\ error' = NULL
    /\ booking' = {}
    /\ showSuccessModal' = FALSE

\* The route /booking/:slotId is entered: a new BookingPage is mounted.
EnterBooking(sid) ==
    /\ ~bpMounted
    /\ bpMounted' = TRUE
    /\ slotId' = sid
    /\ BookingPageFresh
    /\ UNCHANGED <<bookCalls, toasts, homeVars, cacheVars, adminVars, extVars>>

\* The user navigates away: the page is unmounted and its state discarded;
\* calls in flight are not aborted.
LeaveBooking ==
    /\ bpMounted
    /\ bpMounted' = FALSE
    /\ slotId' = ""
    /\ BookingPageFresh
    /\ bookCalls' = OrphanBag(bookCalls)
    /\ UNCHANGED <<toasts, homeVars, cacheVars, adminVars, extVars>>

FormRendered_OnlyPristine == bpMounted /\ booking = {} /\ error = NULL

\* The form is rendered only while no booking is held (line 143).
FormRendered == bpMounted /\ booking = {}

\* The inputs and the submit button are disabled while isSubmitting
\* (lines 157, 173, 182).
FormEnabled == FormRendered /\ ~isSubmitting

\* A submit event reaches handleSubmit only through the rendered form
\* with its submit button enabled (lines 143-144, 180-182).
SubmitEnabled_NoDisable == FormRendered

SubmitEnabled == FormEnabled

\* onChange of the name input, line 155.
SetName(n) ==
    /\ FormEnabled
    /\ n # name
    /\ name' = n
    /\ UNCHANGED <<bpMounted, slotId, isSubmitting, error, booking,
                   showSuccessModal, bookCalls, toasts, homeVars, cacheVars, adminVars, extVars>>

\* The request handleSubmit sends, lines 76-79 (the optional email, which
\* no decision of the page depends on, is left out).
BookRequest == [slot |-> NumberOf(slotId), name |-> Trim(name), live |-> TRUE]

\* The name check of handleSubmit, line 66: !name.trim().
NameIsBlank_NoTrim(n) == n = <<>>

NameIsBlank(n) == Trim(n) = <<>>

\* handleSubmit up to its await, lines 55-79.
HandleSubmit ==
    /\ SubmitEnabled
    /\ IF slotId = ""
       THEN /\ error' = "Invalid slot ID. Please select a slot from the home page."
            /\ UNCHANGED <<isSubmitting, bookCalls>>
       ELSE IF NameIsBlank(name)
       THEN /\ error' = "Name is required"
            /\ UNCHANGED <<isSubmitting, bookCalls>>
       ELSE /\ InFlight(bookCalls) < MaxBookCalls
            /\ error' = NULL
            /\ isSubmitting' = TRUE
            /\ bookCalls' = bookCalls (+) SetToBag({BookRequest})
    /\ UNCHANGED <<bpMounted, slotId, name, booking, showSuccessModal,
                   toasts, homeVars, cacheVars, adminVars, extVars>>

\* The message derived from a rejection, line 88.
BookErrorMessage(e) == IF e.isError THEN e.message ELSE "Failed to book appointment"

BookedToastType_Error(b) == "error"

\* The severity of the notification enqueued when the call resolves, line 85.
BookedToastType(b) == "success"

\* The severity of the notification enqueued when the call rejects, line 91.
BookFailedToastType_Success(e) == "success"

BookFailedToastType(e) == "error"

\* bookAppointment resolved with Booking b: lines 81-85 and 92-94.
BookResolve(c, st) ==
    /\ BagIn(c, bookCalls)
    /\ c.slot # NaN
    /\ Len(toasts) < MaxToasts
    /\ LET b == BookingFor(c, st) IN
       /\ IF c.live
          THEN /\ booking' = {b}
               /\ error' = NULL
               /\ showSuccessModal' = TRUE
               /\ isSubmitting' = FALSE
          ELSE UNCHANGED <<booking, error, showSuccessModal, isSubmitting>>
       /\ toasts' = ShowToast(toasts, "Appointment booked successfully!", BookedToastType(b))
    /\ bookCalls' = bookCalls (-) SetToBag({c})
    /\ UNCHANGED <<bpMounted, slotId, name, homeVars, cacheVars, adminVars, extVars>>

\* bookAppointment rejected with e: lines 86-94.
BookReject(c, e) ==
    /\ BagIn(c, bookCalls)
    /\ e \in RejectValues
    /\ Len(toasts) < MaxToasts
    /\ IF c.live
       THEN /\ error' = BookErrorMessage(e)
            /\ booking' = {}
            /\ isSubmitting' = FALSE
       ELSE UNCHANGED <<error, booking, isSubmitting>>
    /\ toasts' = ShowToast(toasts, BookErrorMessage(e), BookFailedToastType(e))
    /\ bookCalls' = bookCalls (-) SetToBag({c})
    /\ UNCHANGED <<bpMounted, slotId, name, showSuccessModal,
                   homeVars, cacheVars, adminVars, extVars>>

\* What the page renders, lines 192-275.
ErrorShown       == bpMounted /\ Truthy(error)
TicketShown      == bpMounted /\ showSuccessModal /\ booking # {}
StatusCardShown  == bpMounted /\ booking # {} /\ ~showSuccessModal
StatusCardTitle(b) ==
    IF b.status = "CONFIRMED" THEN "Booking Confirmed"
    ELSE IF b.status = "FAILED" THEN "Booking Failed"
    ELSE "Booking Pending"

\* onClose of the ticket, lines 209-212: hide the ticket and navigate home.
CloseTicket ==
    /\ TicketShown
    /\ bpMounted' = FALSE
    /\ slotId' = ""
    /\ BookingPageFresh
    /\ bookCalls' = OrphanBag(bookCalls)
    /\ UNCHANGED <<toasts, homeVars, cacheVars, adminVars, extVars>>

(***************************************************************************)
(* Doctor directory cache: AppContextProvider, src/unnamed/part_003.       *)
(***************************************************************************)
DoctorIds == {1, 2}

Doctor(i) == [id |-> i, name |-> IF i = 1 THEN "A. Smith" ELSE "B. Jones"]

\* Lists GET /doctors can answer with.
DoctorLists == { <<>>, <<Doctor(1)>>, <<Doctor(1), Doctor(2)>> }

DoctorIdsOf(list) == {list[i].id : i \in 1..Len(list)}

\* The message fetchDoctors stores for a rejection, part_003:105.
DoctorsErrorMessage(e) == IF e.isError THEN e.message ELSE "Failed to load doctors"

FetchDoctorsStart_Skipped(owner, live) ==
    UNCHANGED <<loadingDoctors, errorDoctors, doctorCalls>>

\* fetchDoctors up to its await, part_003:98-102.  owner names the caller
\* whose continuation waits for the refresh: "mount" (nobody waits) or
\* "admin" (handleCreateDoctor, live while the dashboard is mounted).
FetchDoctorsStart(owner, live) ==
    /\ loadingDoctors' = TRUE
    /\ errorDoctors' = NULL
    /\ doctorCalls' = Append(doctorCalls, [owner |-> owner, live |-> live])

\* The mount effect, part_003:113-115.  It runs once, or twice back to
\* back when StrictMode (main.tsx:19) re-runs effects in a development
\* build; both runs happen before any response can arrive.
Startup(runs) ==
    /\ started = 0
    /\ runs \in {1, 2}
    /\ started' = runs
    /\ loadingDoctors' = TRUE
    /\ errorDoctors' = NULL
    /\ doctorCalls' = [i \in 1..runs |-> [owner |-> "mount", live |-> FALSE]]
    /\ UNCHANGED <<doctors, bookingVars, toasts, homeVars, adminVars, extVars>>

RefreshedList_Merged(old, data) == old \o data

\* What the list written by a successful refresh is, part_003:103.
RefreshedList(old, data) == data

AfterRefresh_Never(call) == UNCHANGED isCreatingDoctor

\* The continuation of handleCreateDoctor after `await fetchDoctors()`:
\* the finally block, AdminDashboard.tsx:95-97.
AfterRefresh(call) ==
    IF call.owner = "admin" /\ call.live
    THEN isCreatingDoctor' = FALSE
    ELSE UNCHANGED isCreatingDoctor

\* getDoctors resolved with data: part_003:103, 107-109.
DoctorsResolve(i, data) ==
    /\ i \in 1..Len(doctorCalls)
    /\ data \in DoctorLists
    /\ doctors' = RefreshedList(doctors, data)
    /\ loadingDoctors' = FALSE
    /\ doctorCalls' = RemoveAt(doctorCalls, i)
    /\ AfterRefresh(doctorCalls[i])
    /\ UNCHANGED <<started, errorDoctors, bookingVars, toasts, homeVars,
                   adminMounted, doctorName, doctorError, doctorSuccess, createCalls, extVars>>

\* The list left in the cache by a failed refresh, part_003:104-106:
\* the catch block does not call setDoctors.
ListAfterFailure_Cleared(old) == <<>>

ListAfterFailure(old) == old

\* getDoctors rejected with e: part_003:104-109.
DoctorsReject(i, e) ==
    /\ i \in 1..Len(doctorCalls)
    /\ e \in RejectValues
    /\ errorDoctors' = DoctorsErrorMessage(e)
    /\ doctors' = ListAfterFailure(doctors)
    /\ loadingDoctors' = FALSE
    /\ doctorCalls' = RemoveAt(doctorCalls, i)
    /\ AfterRefresh(doctorCalls[i])
    /\ UNCHANGED <<started, bookingVars, toasts, homeVars,
                   adminMounted, doctorName, doctorError, doctorSuccess, createCalls, extVars>>

(***************************************************************************)
(* AdminDashboard: the Create Doctor form.                                 *)
(***************************************************************************)
\* The useState initial values, AdminDashboard.tsx:41-45.
AdminFresh ==
    /\ doctorName' = <<>>
    /\ isCreatingDoctor' = FALSE
    /\ doctorError' = NULL
    /\ doctorSuccess' = NULL

\* The useState initial values of the Create Slot form,
\* AdminDashboard.tsx:48-53.
SlotFormFresh ==
    /\ slotDoctorId' = <<>>
    /\ startTime' = <<>>
    /\ durationMinutes' = <<>>
    /\ isCreatingSlot' = FALSE
    /\ slotError' = NULL
    /\ slotSuccess' = NULL

\* One route is rendered at a time, part_003:53-57.
EnterAdmin ==
    /\ ~adminMounted
    /\ ~homeMounted
    /\ adminMounted' = TRUE
    /\ AdminFresh
    /\ SlotFormFresh
    /\ UNCHANGED <<createCalls, slotCreateCalls, bookingVars, toasts, homeVars,
                   cacheVars, toastVars, icsVars, apiVars>>

LeaveAdmin ==
    /\ adminMounted
    /\ adminMounted' = FALSE
    /\ AdminFresh
    /\ SlotFormFresh
    /\ createCalls' = Orphan(createCalls)
    /\ slotCreateCalls' = Orphan(slotCreateCalls)
    /\ doctorCalls' = Orphan(doctorCalls)
    /\ UNCHANGED <<started, doctors, loadingDoctors, errorDoctors,
                   bookingVars, toasts, homeVars, toastVars, icsVars, apiVars>>

\* The inputs and the button are disabled while isCreatingDoctor
\* (AdminDashboard.tsx:239, 255, 264).
DoctorFormEnabled == adminMounted /\ ~isCreatingDoctor

\* onChange of the doctor name input.
SetDoctorName(n) ==
    /\ DoctorFormEnabled
    /\ n # doctorName
    /\ doctorName' = n
    /\ UNCHANGED <<adminMounted, isCreatingDoctor, doctorError, doctorSuccess,
                   createCalls, bookingVars, toasts, homeVars, cacheVars, extVars>>

\* handleCreateDoctor up to its first await, AdminDashboard.tsx:58-76.
HandleCreateDoctor ==
    /\ DoctorFormEnabled
    /\ doctorSuccess' = NULL
    /\ IF Trim(doctorName) = <<>>
       THEN /\ doctorError' = "Name is required"
            /\ UNCHANGED <<isCreatingDoctor, createCalls>>
       ELSE /\ Len(createCalls) < MaxCreateCalls
            /\ doctorError' = NULL
            /\ isCreatingDoctor' = TRUE
            /\ createCalls' = Append(createCalls, [name |-> Trim(doctorName), live |-> TRUE])
    /\ UNCHANGED <<adminMounted, doctorName, bookingVars, toasts, homeVars, cacheVars, extVars>>

\* createAdminDoctor resolved: AdminDashboard.tsx:78-85, then fetchDoctors
\* runs up to its await.
CreateResolve(i) ==
    /\ i \in 1..Len(createCalls)
    /\ Len(toasts) < MaxToasts
    /\ Len(doctorCalls) < MaxDoctorCalls
    /\ IF createCalls[i].live
       THEN /\ doctorName' = <<>>
            /\ doctorSuccess' = "Doctor created successfully!"
       ELSE UNCHANGED <<doctorName, doctorSuccess>>
    /\ toasts' = ShowToast(toasts, "Doctor created successfully!", "success")
    /\ FetchDoctorsStart("admin", createCalls[i].live)
    /\ createCalls' = RemoveAt(createCalls, i)
    /\ UNCHANGED <<adminMounted, isCreatingDoctor, doctorError, started, doctors,
                   bookingVars, homeVars, extVars>>

\* The message handleCreateDoctor derives from a rejection, lines 88-93.
CreateErrorMessage(e) == IF e.isError THEN e.message ELSE "Failed to create doctor"

\* createAdminDoctor rejected with e: AdminDashboard.tsx:86-97.
CreateReject(i, e) ==
    /\ i \in 1..Len(createCalls)
    /\ e \in RejectValues
    /\ Len(toasts) < MaxToasts
    /\ IF createCalls[i].live
       THEN /\ doctorError' = CreateErrorMessage(e)
            /\ isCreatingDoctor' = FALSE
       ELSE UNCHANGED <<doctorError, isCreatingDoctor>>
    /\ toasts' = ShowToast(toasts, CreateErrorMessage(e), "error")
    /\ createCalls' = RemoveAt(createCalls, i)
    /\ UNCHANGED <<adminMounted, doctorName, doctorSuccess, bookingVars,
                   homeVars, cacheVars, extVars>>

(***************************************************************************)
(* UserHome: the slot query.                                               *)
(***************************************************************************)
Slot(i, d) == [id |-> i, doctor_id |-> d]

\* Lists GET /doctors/{d}/slots can answer with.
SlotLists(d) == { <<>>, <<Slot(10 * d + 1, d)>>, <<Slot(10 * d + 1, d), Slot(10 * d + 2, d)>> }

\* The useState initial values, UserHome.tsx:25-27.
HomeFresh ==
    /\ selectedDoctorId' = 0
    /\ slots' = <<>>
    /\ loadingSlots' = FALSE

\* One route is rendered at a time, part_003:53-57.
EnterHome ==
    /\ ~homeMounted
    /\ ~adminMounted
    /\ homeMounted' = TRUE
    /\ HomeFresh
    /\ UNCHANGED <<slotCalls, bookingVars, toasts, cacheVars, adminVars, extVars>>

\* The user leaves the home page (a nav link, or handleBookSlot's
\* navigate, UserHome.tsx:87-89): the page is unmounted.
LeaveHome ==
    /\ homeMounted
    /\ homeMounted' = FALSE
    /\ HomeFresh
    /\ slotCalls' = Orphan(slotCalls)
    /\ UNCHANGED <<bookingVars, toasts, cacheVars, adminVars, extVars>>

\* The doctor list is rendered only without a cache error and while the
\* cache is not loading, UserHome.tsx:245-258.
DoctorListShown == homeMounted /\ ~Truthy(errorDoctors) /\ ~loadingDoctors

\* What the left column of the home page renders from the cache,
\* UserHome.tsx:233-258: the error box, the skeleton while the cache is
\* loading, or the doctor list.
DoctorPanel ==
    IF Truthy(errorDoctors) THEN [panel |-> "error", list |-> <<>>]
    ELSE IF loadingDoctors THEN [panel |-> "skeleton", list |-> <<>>]
    ELSE [panel |-> "list", list |-> doctors]

SlotsOnSelect_Kept(old) == old

\* The slot list handleSelectDoctor leaves before its request is sent:
\* setSlots([]), UserHome.tsx:71.
SlotsOnSelect(old) == <<>>

\* handleSelectDoctor up to its await, UserHome.tsx:68-74.
HandleSelectDoctor(d) ==
    /\ DoctorListShown
    /\ d \in DoctorIdsOf(doctors)
    /\ Len(slotCalls) < MaxSlotCalls
    /\ selectedDoctorId' = d
    /\ loadingSlots' = TRUE
    /\ slots' = SlotsOnSelect(slots)
    /\ slotCalls' = Append(slotCalls, [doctorId |-> d, live |-> TRUE])
    /\ UNCHANGED <<homeMounted, bookingVars, toasts, cacheVars, adminVars, extVars>>

\* Whether the continuation of a slot request writes its outcome to the
\* page: there is no comparison with the current selection,
\* UserHome.tsx:74-81.
AppliesSlotResponse(call) == call.live

\* getDoctorSlots resolved with data: UserHome.tsx:75, 79-81.
SlotsResolve(i, data) ==
    /\ i \in 1..Len(slotCalls)
    /\ data \in SlotLists(slotCalls[i].doctorId)
    /\ IF AppliesSlotResponse(slotCalls[i])
       THEN /\ slots' = data
            /\ loadingSlots' = FALSE
       ELSE UNCHANGED <<slots, loadingSlots>>
    /\ slotCalls' = RemoveAt(slotCalls, i)
    /\ UNCHANGED <<homeMounted, selectedDoctorId, bookingVars, toasts, cacheVars, adminVars, extVars>>

\* getDoctorSlots rejected: UserHome.tsx:76-81.
SlotsReject(i) ==
    /\ i \in 1..Len(slotCalls)
    /\ IF AppliesSlotResponse(slotCalls[i])
       THEN /\ slots' = <<>>
            /\ loadingSlots' = FALSE
       ELSE UNCHANGED <<slots, loadingSlots>>
    /\ slotCalls' = RemoveAt(slotCalls, i)
    /\ UNCHANGED <<homeMounted, selectedDoctorId, bookingVars, toasts, cacheVars, adminVars, extVars>>

\* What the slot panel renders, UserHome.tsx:263-278.
SlotPanel ==
    IF selectedDoctorId = 0 THEN "prompt"
    ELSE IF loadingSlots THEN "skeleton"
    ELSE "list"

DisplayedSlots == IF homeMounted /\ SlotPanel = "list" THEN slots ELSE <<>>

(***************************************************************************)
(* Toast: one notification on screen, BookingSuccessModal.tsx:93-146.      *)
(***************************************************************************)
ToastIds == {1, 2}

\* The default of the duration prop, line 109.
ToastDuration == 3000

\* Identities the onClose prop can have from one render to the next.
Handlers == {0, 1}

\* Amounts by which the clock advances between two events.
TickSteps == {1000, 2000}

NotClosed == [by |-> "none", at |-> 0, stale |-> FALSE]

\* setTimeout(() => onClose(), duration), lines 111-113.
SetTimer(ts, id) == ts \cup {[id |-> id, due |-> now + ToastDuration]}

\* The cleanup of the effect, line 115: clearTimeout(timer).
ClearTimeout_Missing(ts, id) == ts

ClearTimeout(ts, id) == {t \in ts : t.id # id}

\* The owner of the queue takes a closed notification off the screen.
RemoveToast(id) == toastMounted' = [toastMounted EXCEPT ![id] = FALSE]

\* A Toast is mounted: the effect runs, lines 110-116.
MountToast(id, h) ==
    /\ ~toastMounted[id]
    /\ toastMounted' = [toastMounted EXCEPT ![id] = TRUE]
    /\ toastShownAt' = [toastShownAt EXCEPT ![id] = now]
    /\ toastOnClose' = [toastOnClose EXCEPT ![id] = h]
    /\ closed' = [closed EXCEPT ![id] = NotClosed]
    /\ timers' = SetTimer(timers, id)
    /\ UNCHANGED <<now, bookingVars, toasts, homeVars, cacheVars, adminVars, slotFormVars, icsVars, apiVars>>

\* The Toast is rendered again with another onClose function: a dependency
\* of the effect changed (line 116), so its cleanup runs and the effect
\* runs again.  (A render with the same props changes nothing.)
RerenderToast(id, h) ==
    /\ toastMounted[id]
    /\ h # toastOnClose[id]
    /\ toastOnClose' = [toastOnClose EXCEPT ![id] = h]
    /\ timers' = SetTimer(ClearTimeout(timers, id), id)
    /\ UNCHANGED <<now, toastMounted, toastShownAt, closed,
                   bookingVars, toasts, homeVars, cacheVars, adminVars, slotFormVars, icsVars, apiVars>>

\* Time passes; a timer fires when it is due, never later.
Tick(dt) ==
    /\ dt \in TickSteps
    /\ now + dt <= MaxTime
    /\ \A t \in timers : t.due >= now + dt
    /\ now' = now + dt
    /\ UNCHANGED <<toastMounted, toastShownAt, toastOnClose, timers, closed,
                   bookingVars, toasts, homeVars, cacheVars, adminVars, slotFormVars, icsVars, apiVars>>

\* A timer fires: its callback calls onClose (line 112); the notification
\* is removed, which unmounts the Toast and runs the cleanup (line 115).
TimerFire(t) ==
    /\ t \in timers
    /\ t.due <= now
    /\ closed' = [closed EXCEPT ![t.id] =
                     [by |-> "timer", at |-> now, stale |-> ~toastMounted[t.id]]]
    /\ RemoveToast(t.id)
    /\ timers' = IF toastMounted[t.id] THEN ClearTimeout(timers \ {t}, t.id)
                                       ELSE timers \ {t}
    /\ UNCHANGED <<now, toastShownAt, toastOnClose,
                   bookingVars, toasts, homeVars, cacheVars, adminVars, slotFormVars, icsVars, apiVars>>

\* The user clicks the close button, line 138: onClose, then unmount.
DismissClick(id) ==
    /\ toastMounted[id]
    /\ closed' = [closed EXCEPT ![id] = [by |-> "user", at |-> now, stale |-> FALSE]]
    /\ RemoveToast(id)
    /\ timers' = ClearTimeout(timers, id)
    /\ UNCHANGED <<now, toastShownAt, toastOnClose,
                   bookingVars, toasts, homeVars, cacheVars, adminVars, slotFormVars, icsVars, apiVars>>

\* The Toast is unmounted without onClose having been called.
UnmountToast(id) ==
    /\ toastMounted[id]
    /\ RemoveToast(id)
    /\ timers' = ClearTimeout(timers, id)
    /\ UNCHANGED <<now, toastShownAt, toastOnClose, closed,
                   bookingVars, toasts, homeVars, cacheVars, adminVars, slotFormVars, icsVars, apiVars>>

ToastInit ==
    /\ now = 0
    /\ toastMounted = [id \in ToastIds |-> FALSE]
    /\ toastShownAt = [id \in ToastIds |-> 0]
    /\ toastOnClose = [id \in ToastIds |-> 0]
    /\ timers = {}
    /\ closed = [id \in ToastIds |-> NotClosed]

(***************************************************************************)
(* Calendar export: generateICS, src/unnamed/part_002:44-68.               *)
(***************************************************************************)
\* An ISO-8601 UTC timestamp, as its fields: day number, hour, minute,
\* second, millisecond.
Stamp(d, h, mi, s, ms) == [d |-> d, h |-> h, mi |-> mi, s |-> s, ms |-> ms]

\* new Date(isoString).getTime(): milliseconds since day 0.
DateParse(ts) == (((ts.d * 24 + ts.h) * 60 + ts.mi) * 60 + ts.s) * 1000 + ts.ms

\* date.toISOString(), from milliseconds.
ToISOString(t) ==
    Stamp(t \div 86400000, (t \div 3600000) % 24, (t \div 60000) % 60,
          (t \div 1000) % 60, t % 1000)

\* formatDate, part_002:48-50: the separators are removed and the string is
\* cut at the '.', which drops the milliseconds.
FormatDate(t) ==
    LET iso == ToISOString(t)
    IN  [d |-> iso.d, h |-> iso.h, mi |-> iso.mi, s |-> iso.s]

\* new Date() when the clock of the model reads `now`.
ClockOrigin == DateParse(Stamp(1, 8, 59, 59, 0))

DateNow == ClockOrigin + now

IcsBookings == { [id |-> 7, patient_name |-> "J"], [id |-> 8, patient_name |-> "K"] }

IcsSlots ==
    { [start_time |-> Stamp(1, 9, 0, 0, 0),     duration_minutes |-> 30],
      [start_time |-> Stamp(1, 23, 45, 0, 500), duration_minutes |-> 45],
      [start_time |-> Stamp(2, 10, 15, 30, 0),  duration_minutes |-> 15] }

IcsDoctors == { [name |-> "Dr. A"] }

\* The optional arguments may be absent.
Absent == [absent |-> TRUE]

\* part_002:45.
StartOf(slot) == IF slot # Absent THEN DateParse(slot.start_time) ELSE DateNow

\* part_002:46.
EndOf_Default30(start, slot) == start + 30 * 60000

EndOf(start, slot) ==
    IF slot # Absent THEN start + slot.duration_minutes * 60000
                     ELSE start + 30 * 60000

\* The payload, part_002:52-67, as its lines that vary.
GenerateICS(b, slot, doctor) ==
    LET start == StartOf(slot)
        end   == EndOf(start, slot)
    IN  [ UID         |-> <<b.id, "@medreserve.com">>,
          DTSTAMP     |-> FormatDate(DateNow),
          DTSTART     |-> FormatDate(start),
          DTEND       |-> FormatDate(end),
          SUMMARY     |-> <<"Appointment with ",
                            IF doctor # Absent THEN doctor.name ELSE "Doctor">>,
          DESCRIPTION |-> <<"Booking ID: ", b.id, "\nPatient: ", b.patient_name>>,
          STATUS      |-> "CONFIRMED" ]

\* downloadICS, part_002:73-84: the payload is generated and handed to
\* the browser as a file.
DownloadICS ==
    /\ Len(icsExports) < MaxExports
    /\ icsExports' = Append(icsExports,
                            [at |-> now,
                             payload |-> GenerateICS(icsBooking, icsSlot, icsDoctor)])
    /\ UNCHANGED <<icsBooking, icsSlot, icsDoctor, toastVars,
                   bookingVars, toasts, homeVars, cacheVars, adminVars, slotFormVars, apiVars>>

\* The ticket is shown for some booking, with or without its slot and
\* doctor (part_002:5-9, 89).
IcsArgs ==
    /\ icsBooking \in IcsBookings
    /\ icsSlot \in IcsSlots \cup {Absent}
    /\ icsDoctor \in IcsDoctors \cup {Absent}
    /\ icsExports = <<>>

IcsIdle ==
    /\ icsBooking = CHOOSE b \in IcsBookings : b.id = 7
    /\ icsSlot = Absent
    /\ icsDoctor = Absent
    /\ icsExports = <<>>

(***************************************************************************)
(* fetchApi, src/unnamed/part_000:15-39, one call per endpoint.            *)
(***************************************************************************)
Endpoints == {"/doctors", "/bookings", "/admin/doctors"}

NoResponse(phase) ==
    [phase |-> phase, ok |-> FALSE, status |-> 0, message |-> NULL]

\* What the backend can answer: a status, and a body that carries a
\* message or does not.
Responses ==
    [phase : {"received"}, ok : {TRUE}, status : {200}, message : {NULL}]
    \cup [phase : {"received"}, ok : {FALSE}, status : {409, 500},
          message : {NULL, "Slot already booked"}]

NoOutcome == [kind |-> "none", message |-> NULL]

\* fetch(url, ...) is called, part_000:22-28.
ApiFetch(ep) ==
    /\ apiResponse[ep].phase \in {"idle", "done", "failed"}
    /\ apiResponse' = [apiResponse EXCEPT ![ep] = NoResponse("pending")]
    /\ apiOutcome' = [apiOutcome EXCEPT ![ep] = NoOutcome]
    /\ UNCHANGED <<toastVars, icsVars,
                   bookingVars, toasts, homeVars, cacheVars, adminVars, slotFormVars>>

\* The response arrives.  A non-2xx one is thrown at once (part_000:30-32)
\* and rethrown by the catch (part_000:35-38); a 2xx one has its body
\* parsed (part_000:34).
ApiRespond(ep, r) ==
    /\ apiResponse[ep].phase = "pending"
    /\ r \in Responses
    /\ IF r.ok
         THEN /\ apiResponse' = [apiResponse EXCEPT ![ep] = [r EXCEPT !.phase = "parsing"]]
              /\ UNCHANGED apiOutcome
         ELSE /\ apiResponse' = [apiResponse EXCEPT ![ep] = [r EXCEPT !.phase = "done"]]
              /\ apiOutcome' = [apiOutcome EXCEPT ![ep] =
                                   [kind |-> "error", message |-> ApiErrorMessage(r.status)]]
    /\ UNCHANGED <<toastVars, icsVars,
                   bookingVars, toasts, homeVars, cacheVars, adminVars, slotFormVars>>

\* response.json() resolves, part_000:34.
ApiJson(ep) ==
    /\ apiResponse[ep].phase = "parsing"
    /\ apiResponse' = [apiResponse EXCEPT ![ep].phase = "done"]
    /\ apiOutcome' = [apiOutcome EXCEPT ![ep] = [kind |-> "value", message |-> NULL]]
    /\ UNCHANGED <<toastVars, icsVars,
                   bookingVars, toasts, homeVars, cacheVars, adminVars, slotFormVars>>

\* fetch rejects (no response): the catch rethrows, part_000:35-38.
ApiNetworkFail(ep) ==
    /\ apiResponse[ep].phase = "pending"
    /\ apiResponse' = [apiResponse EXCEPT ![ep] = NoResponse("failed")]
    /\ apiOutcome' = [apiOutcome EXCEPT ![ep] =
                         [kind |-> "error", message |-> "Failed to fetch"]]
    /\ UNCHANGED <<toastVars, icsVars,
                   bookingVars, toasts, homeVars, cacheVars, adminVars, slotFormVars>>

ApiInit ==
    /\ apiResponse = [ep \in Endpoints |-> NoResponse("idle")]
    /\ apiOutcome = [ep \in Endpoints |-> NoOutcome]

(***************************************************************************)
(* AdminDashboard: the Create Slot form, AdminDashboard.tsx:103-155.       *)
(***************************************************************************)
Digits == {"0", "1", "2", "3", "5"}

DigitValue(c) ==
    CASE c = "0" -> 0 [] c = "1" -> 1 [] c = "2" -> 2 [] c = "3" -> 3 [] c = "5" -> 5

RECURSIVE ParseDigits(_, _)
ParseDigits(s, acc) ==
    IF s = <<>> \/ Head(s) \notin Digits THEN acc
    ELSE ParseDigits(Tail(s), acc * 10 + DigitValue(Head(s)))

\* parseInt(text): an optional sign and the longest prefix of digits;
\* NaN when there is no digit.  (No text here parses to the number that
\* stands for NaN.)
ParseInt(s) ==
    LET neg  == s # <<>> /\ Head(s) = "-"
        body == IF neg THEN Tail(s) ELSE s
    IN  IF body = <<>> \/ Head(body) \notin Digits THEN NaN
        ELSE IF neg THEN 0 - ParseDigits(body, 0) ELSE ParseDigits(body, 0)

\* Texts the duration input can hold.
DurationInputs == { <<>>, <<"3", "0">>, <<"0">>, <<"-", "5">>, <<"1", ".", "5">> }

\* Values the datetime-local input can hold: '' or a local date and time.
StartTimeInputs == { <<>>, <<Stamp(1, 9, 0, 0, 0)>> }

\* Minutes the local time is ahead of UTC.
TimeZoneOffsets == {0, 330}

\* The value of the option of a doctor, AdminDashboard.tsx:320-322.
OptionValue(id) == IF id = 1 THEN <<"1">> ELSE <<"2">>

DoctorOptions == {<<>>} \cup {OptionValue(id) : id \in DoctorIdsOf(doctors)}

\* new Date(startTime).toISOString(), line 127.
IsoStartTime(t, tz) == ToISOString(DateParse(t) - tz * 60000)

\* The select is disabled while a slot is being created, while the cache
\* is loading and without doctors (line 315).
SetSlotDoctor(v) ==
    /\ adminMounted
    /\ ~(isCreatingSlot \/ loadingDoctors \/ doctors = <<>>)
    /\ v \in DoctorOptions
    /\ v # slotDoctorId
    /\ slotDoctorId' = v
    /\ UNCHANGED <<startTime, durationMinutes, isCreatingSlot, slotError, slotSuccess,
                   slotCreateCalls, bookingVars, toasts, homeVars, cacheVars, adminVars,
                   toastVars, icsVars, apiVars>>

\* onChange of the start time input, lines 339-341.
SetStartTime(v) ==
    /\ adminMounted
    /\ ~isCreatingSlot
    /\ v \in StartTimeInputs
    /\ v # startTime
    /\ startTime' = v
    /\ UNCHANGED <<slotDoctorId, durationMinutes, isCreatingSlot, slotError, slotSuccess,
                   slotCreateCalls, bookingVars, toasts, homeVars, cacheVars, adminVars,
                   toastVars, icsVars, apiVars>>

\* onChange of the duration input, lines 355-358.
SetDuration(v) ==
    /\ adminMounted
    /\ ~isCreatingSlot
    /\ v \in DurationInputs
    /\ v # durationMinutes
    /\ durationMinutes' = v
    /\ UNCHANGED <<slotDoctorId, startTime, isCreatingSlot, slotError, slotSuccess,
                   slotCreateCalls, bookingVars, toasts, homeVars, cacheVars, adminVars,
                   toastVars, icsVars, apiVars>>

\* The submit button is disabled while a slot is being created and
\* without doctors (line 367).
SlotFormEnabled == adminMounted /\ ~isCreatingSlot /\ doctors # <<>>

\* The duration check of handleCreateSlot, lines 118-119.
DurationIsValid_AnyNumber(text) == text # <<>> /\ ParseInt(text) # NaN

DurationIsValid(text) == text # <<>> /\ ParseInt(text) # NaN /\ ParseInt(text) > 0

\* handleCreateSlot up to its await, lines 103-134.
HandleCreateSlot(tz) ==
    /\ SlotFormEnabled
    /\ tz \in TimeZoneOffsets
    /\ slotSuccess' = NULL
    /\ IF slotDoctorId = <<>>
       THEN /\ slotError' = "Please select a doctor"
            /\ UNCHANGED <<isCreatingSlot, slotCreateCalls>>
       ELSE IF startTime = <<>>
       THEN /\ slotError' = "Start time is required"
            /\ UNCHANGED <<isCreatingSlot, slotCreateCalls>>
       ELSE IF ~DurationIsValid(durationMinutes)
       THEN /\ slotError' = "Duration must be a positive number"
            /\ UNCHANGED <<isCreatingSlot, slotCreateCalls>>
       ELSE /\ Len(slotCreateCalls) < MaxSlotCreateCalls
            /\ slotError' = NULL
            /\ isCreatingSlot' = TRUE
            /\ slotCreateCalls' = Append(slotCreateCalls,
                  [doctor_id        |-> ParseInt(slotDoctorId),
                   start_time       |-> IsoStartTime(startTime[1], tz),
                   duration_minutes |-> ParseInt(durationMinutes),
                   live             |-> TRUE])
    /\ UNCHANGED <<slotDoctorId, startTime, durationMinutes,
                   bookingVars, toasts, homeVars, cacheVars, adminVars,
                   toastVars, icsVars, apiVars>>

\* createAdminSlot resolved: lines 136-140 and 151-153.
SlotCreateResolve(i) ==
    /\ i \in 1..Len(slotCreateCalls)
    /\ Len(toasts) < MaxToasts
    /\ IF slotCreateCalls[i].live
       THEN /\ startTime' = <<>>
            /\ durationMinutes' = <<>>
            /\ slotSuccess' = "Slot created successfully!"
            /\ isCreatingSlot' = FALSE
       ELSE UNCHANGED <<startTime, durationMinutes, slotSuccess, isCreatingSlot>>
    /\ toasts' = ShowToast(toasts, "Slot created successfully!", "success")
    /\ slotCreateCalls' = RemoveAt(slotCreateCalls, i)
    /\ UNCHANGED <<slotDoctorId, slotError, bookingVars, homeVars, cacheVars, adminVars,
                   toastVars, icsVars, apiVars>>

\* The message handleCreateSlot derives from a rejection, lines 143-149.
SlotErrorMessage(e) == IF e.isError THEN e.message ELSE "Failed to create slot"

\* createAdminSlot rejected with e: lines 141-153.
SlotCreateReject(i, e) ==
    /\ i \in 1..Len(slotCreateCalls)
    /\ e \in RejectValues
    /\ Len(toasts) < MaxToasts
    /\ IF slotCreateCalls[i].live
       THEN /\ slotError' = SlotErrorMessage(e)
            /\ isCreatingSlot' = FALSE
       ELSE UNCHANGED <<slotError, isCreatingSlot>>
    /\ toasts' = ShowToast(toasts, SlotErrorMessage(e), "error")
    /\ slotCreateCalls' = RemoveAt(slotCreateCalls, i)
    /\ UNCHANGED <<slotDoctorId, startTime, durationMinutes, slotSuccess,
                   bookingVars, homeVars, cacheVars, adminVars, toastVars, icsVars, apiVars>>

SlotFormInit ==
    /\ slotDoctorId = <<>>
    /\ startTime = <<>>
    /\ durationMinutes = <<>>
    /\ isCreatingSlot = FALSE
    /\ slotError = NULL
    /\ slotSuccess = NULL
    /\ slotCreateCalls = <<>>

(***************************************************************************)
(* Specifications.                                                         *)
(***************************************************************************)
AppInit ==
    /\ bpMounted = FALSE
    /\ slotId = ""
    /\ name = <<>>
    /\ isSubmitting = FALSE
    /\ error = NULL
    /\ booking = {}
    /\ showSuccessModal = FALSE
    /\ bookCalls = EmptyBag
    /\ toasts = <<>>
    /\ homeMounted = FALSE
    /\ selectedDoctorId = 0
    /\ slots = <<>>
    /\ loadingSlots = FALSE
    /\ slotCalls = <<>>
    /\ started = 0
    /\ doctors = <<>>
    /\ loadingDoctors = FALSE
    /\ errorDoctors = NULL
    /\ doctorCalls = <<>>
    /\ adminMounted = FALSE
    /\ doctorName = <<>>
    /\ isCreatingDoctor = FALSE
    /\ doctorError = NULL
    /\ doctorSuccess = NULL
    /\ createCalls = <<>>

Init == AppInit /\ ToastInit /\ IcsIdle /\ ApiInit /\ SlotFormInit

\* The booking page and the notification queue.
NextBooking ==
    \/ \E sid \in SlotIdParams : EnterBooking(sid)
    \/ LeaveBooking
    \/ \E n \in Names : SetName(n)
    \/ HandleSubmit
    \/ \E c \in BagToSet(bookCalls), st \in BookingStatuses : BookResolve(c, st)
    \/ \E c \in BagToSet(bookCalls), e \in RejectValues : BookReject(c, e)
    \/ CloseTicket
    \/ \E i \in 1..MaxToasts : DismissToast(i)

SpecBooking == Init /\ [][NextBooking]_vars

\* The doctor directory cache with the two callers of its refresh.
NextCache ==
    \/ \E runs \in {1, 2} : Startup(runs)
    \/ \E i \in 1..(MaxDoctorCalls + 1), data \in DoctorLists : DoctorsResolve(i, data)
    \/ \E i \in 1..(MaxDoctorCalls + 1), e \in RejectValues : DoctorsReject(i, e)
    \/ EnterAdmin
    \/ LeaveAdmin
    \/ \E n \in DoctorNames : SetDoctorName(n)
    \/ HandleCreateDoctor
    \/ \E i \in 1..MaxCreateCalls : CreateResolve(i)
    \/ \E i \in 1..MaxCreateCalls, e \in RejectValues : CreateReject(i, e)
    \/ \E i \in 1..MaxToasts : DismissToast(i)

SpecCache == Init /\ [][NextCache]_vars

\* The patient home page on top of the doctor directory cache.
NextHome ==
    \/ \E runs \in {1, 2} : Startup(runs)
    \/ \E i \in 1..(MaxDoctorCalls + 1), data \in DoctorLists : DoctorsResolve(i, data)
    \/ \E i \in 1..(MaxDoctorCalls + 1), e \in RejectValues : DoctorsReject(i, e)
    \/ EnterHome
    \/ LeaveHome
    \/ \E d \in DoctorIds : HandleSelectDoctor(d)
    \/ \E i \in 1..MaxSlotCalls, data \in UNION {SlotLists(d) : d \in DoctorIds} : SlotsResolve(i, data)
    \/ \E i \in 1..MaxSlotCalls : SlotsReject(i)

SpecHome == Init /\ [][NextHome]_vars

\* The doctor directory cache, the dashboard that refreshes it and the
\* home page that renders it.
NextDirectory ==
    \/ \E runs \in {1, 2} : Startup(runs)
    \/ \E i \in 1..(MaxDoctorCalls + 1), data \in DoctorLists : DoctorsResolve(i, data)
    \/ \E i \in 1..(MaxDoctorCalls + 1), e \in RejectValues : DoctorsReject(i, e)
    \/ EnterAdmin
    \/ LeaveAdmin
    \/ \E n \in DoctorNames : SetDoctorName(n)
    \/ HandleCreateDoctor
    \/ \E i \in 1..MaxCreateCalls : CreateResolve(i)
    \/ \E i \in 1..MaxCreateCalls, e \in RejectValues : CreateReject(i, e)
    \/ \E i \in 1..MaxToasts : DismissToast(i)
    \/ EnterHome
    \/ LeaveHome

SpecDirectory == Init /\ [][NextDirectory]_vars

\* The Create Slot form of the dashboard, with the doctor list it reads
\* from the cache (the form does not read the cache error).  The slot
\* calls fail the two ways fetchApi fails: a non-2xx response or no
\* response.
NextSlotForm ==
    \/ \E runs \in {1, 2} : Startup(runs)
    \/ \E i \in 1..(MaxDoctorCalls + 1), data \in DoctorLists : DoctorsResolve(i, data)
    \/ EnterAdmin
    \/ LeaveAdmin
    \/ \E v \in {<<>>} \cup {OptionValue(id) : id \in DoctorIds} : SetSlotDoctor(v)
    \/ \E v \in StartTimeInputs : SetStartTime(v)
    \/ \E v \in DurationInputs : SetDuration(v)
    \/ \E tz \in TimeZoneOffsets : HandleCreateSlot(tz)
    \/ \E i \in 1..MaxSlotCreateCalls : SlotCreateResolve(i)
    \/ \E i \in 1..MaxSlotCreateCalls, e \in ApiFailures : SlotCreateReject(i, e)
    \/ \E i \in 1..MaxToasts : DismissToast(i)

SpecSlotForm == Init /\ [][NextSlotForm]_vars

\* Notifications on screen and their timers.
NextToast ==
    \/ \E id \in ToastIds, h \in Handlers : MountToast(id, h)
    \/ \E id \in ToastIds, h \in Handlers : RerenderToast(id, h)
    \/ \E dt \in TickSteps : Tick(dt)
    \/ \E t \in timers : TimerFire(t)
    \/ \E id \in ToastIds : DismissClick(id)
    \/ \E id \in ToastIds : UnmountToast(id)

SpecToast == Init /\ [][NextToast]_vars

\* The calendar export of one ticket, called at different times.
InitICS == AppInit /\ ToastInit /\ IcsArgs /\ ApiInit /\ SlotFormInit

NextICS ==
    \/ \E dt \in TickSteps : Tick(dt)
    \/ DownloadICS

SpecICS == InitICS /\ [][NextICS]_vars

\* The API client.
NextApi ==
    \/ \E ep \in Endpoints : ApiFetch(ep)
    \/ \E ep \in Endpoints, r \in Responses : ApiRespond(ep, r)
    \/ \E ep \in Endpoints : ApiJson(ep)
    \/ \E ep \in Endpoints : ApiNetworkFail(ep)

SpecApi == Init /\ [][NextApi]_vars

(***************************************************************************)
(* Properties.                                                             *)
(***************************************************************************)
Last(q) == q[Len(q)]

\* C1: last selection wins -- the slot list on display never holds a slot
\* of a doctor other than the selected one (a response for an earlier
\* selection A that arrives after B was selected is not shown).
C1_LastSelectionWins ==
    \A k \in 1..Len(DisplayedSlots) : DisplayedSlots[k].doctor_id = selectedDoctorId

\* C2: at most one bookAppointment call of the mounted booking page is in
\* flight, it is in flight exactly while the page is Submitting, and no
\* step sends a call while one is outstanding.
C2_SubmitReentrancy ==
    /\ [](InFlight(LiveCalls(bookCalls)) <= 1)
    /\ []((InFlight(LiveCalls(bookCalls)) = 1) <=> isSubmitting)
    /\ [][isSubmitting => InFlight(bookCalls') <= InFlight(bookCalls)]_vars

\* The page is Submitting with its one call, next to a call left in flight
\* by an earlier visit of the page.
C2_Witness ==
    /\ isSubmitting
    /\ InFlight(bookCalls) = 2
    /\ InFlight(LiveCalls(bookCalls)) = 1

\* C3: while the patient name is empty or blank no step sends a call, and a
\* submit leaves the page Idle (not submitting, no booking, no new call)
\* with a validation error message.
C3_BlankNameRejected ==
    [][Trim(name) = <<>> =>
          /\ InFlight(bookCalls') <= InFlight(bookCalls)
          /\ (HandleSubmit =>
                /\ bookCalls' = bookCalls
                /\ ~isSubmitting'
                /\ booking' = {}
                /\ Truthy(error'))]_vars

\* A blank (not empty) name was submitted and rejected locally.
C3_Witness ==
    /\ bpMounted
    /\ name = <<" ">>
    /\ error = "Name is required"
    /\ ~isSubmitting
    /\ bookCalls = EmptyBag

\* C4: whenever a refresh completes successfully the cached list is exactly
\* the list it returned and the cache error is none.
C4_SuccessfulRefresh ==
    [][\A i \in 1..Len(doctorCalls), data \in DoctorLists :
          DoctorsResolve(i, data) => doctors' = data /\ errorDoctors' = NULL]_vars

\* C5: a failed refresh sets the cache error and leaves the cached list as
\* it was.
C5_FailedRefreshKeepsList ==
    [][\A i \in 1..Len(doctorCalls), e \in RejectValues :
          DoctorsReject(i, e) => errorDoctors' # NULL /\ doctors' = doctors]_vars

\* A refresh failed after an earlier one had filled the cache.
C5_Witness ==
    /\ errorDoctors # NULL
    /\ doctors # <<>>
    /\ ~loadingDoctors
    /\ doctorCalls = <<>>

\* C6: at most one getDoctors call is outstanding at any time.
C6_RefreshNotInterleaved == Len(doctorCalls) <= 1

\* C7: the ticket is shown only for a CONFIRMED booking; a PENDING booking
\* shows the status card (pending notice) instead.
C7_TicketOnlyWhenConfirmed ==
    \A b \in booking :
        /\ TicketShown => b.status = "CONFIRMED"
        /\ (bpMounted /\ b.status = "PENDING") => StatusCardShown

\* C8: a booking call that resolves with status FAILED enqueues a
\* notification of severity error and shows no ticket.
C8_FailedBookingIsError ==
    [][\A c \in BagToSet(bookCalls) :
          BookResolve(c, "FAILED") =>
             /\ Last(toasts').type = "error"
             /\ ~TicketShown']_vars

\* C9: a rejection of the booking call (non-2xx response or transport
\* failure) enqueues exactly one notification, of severity error, and stores
\* no booking; on the page that sent it, it ends in Failed: an error
\* message is set, no booking is held, the page is no longer submitting.
C9_RejectionEndsInFailed ==
    [][\A c \in BagToSet(bookCalls), e \in RejectValues :
          (BookReject(c, e) /\ IsApiOrTransportFailure(e)) =>
             /\ Len(toasts') = Len(toasts) + 1
             /\ SubSeq(toasts', 1, Len(toasts)) = toasts
             /\ Last(toasts').type = "error"
             /\ booking' \subseteq booking
             /\ (c.live =>
                    /\ Truthy(error')
                    /\ booking' = {}
                    /\ ~isSubmitting')]_vars

\* The page is in Failed after an HTTP 409: the conflict message is shown
\* and was enqueued as an error notification.
C9_Witness ==
    /\ bpMounted
    /\ ~isSubmitting
    /\ booking = {}
    /\ error = ApiErrorMessage(409)
    /\ toasts # <<>>
    /\ Last(toasts) = [message |-> ApiErrorMessage(409), type |-> "error"]

\* C10: whatever the booking call rejects with, the message shown is not
\* blank: the error's message when it has one, the generic string otherwise.
C10_MessageNeverBlank ==
    [][\A c \in BagToSet(bookCalls), e \in RejectValues :
          (BookReject(c, e) /\ c.live) =>
             /\ Truthy(error')
             /\ error' = (IF e.isError /\ e.message # ""
                          THEN e.message ELSE "Failed to book appointment")]_vars

\* C11: every failure of a network-backed operation results in both a
\* notification of severity error and a local error state: a rejected
\* doctor refresh enqueues an error notification and sets errorDoctors, a
\* rejected doctor creation enqueues one and sets doctorError on its page.
C11_FailureNotifiesAndSetsError ==
    [][/\ \A i \in 1..Len(doctorCalls), e \in RejectValues :
             (DoctorsReject(i, e) /\ IsApiOrTransportFailure(e)) =>
                /\ Truthy(errorDoctors')
                /\ Len(toasts') = Len(toasts) + 1
                /\ Last(toasts').type = "error"
       /\ \A i \in 1..Len(createCalls), e \in RejectValues :
             (CreateReject(i, e) /\ IsApiOrTransportFailure(e)) =>
                /\ createCalls[i].live => Truthy(doctorError')
                /\ Len(toasts') = Len(toasts) + 1
                /\ Last(toasts').type = "error"]_vars

\* C12: a stored booking is never replaced, modified or cleared by any
\* event on the booking page while the page stays mounted (a submission
\* that settles later and fails included); it goes only when the user
\* leaves the page.
C12_StoredBookingKept ==
    [][(bpMounted /\ bpMounted' /\ booking # {}) => booking' = booking]_vars

\* A booking is held while the call of an earlier visit of the page has
\* just failed: its error notification is queued, the booking is there.
C12_Witness ==
    /\ bpMounted
    /\ booking # {}
    /\ toasts # <<>>
    /\ Last(toasts).type = "error"

\* C13: a slot response (success or failure) for a doctor that is no
\* longer the selected one leaves the slot list and the loading flag of
\* the mounted page unchanged.
C13_StaleResponseIgnored ==
    [][\A i \in 1..Len(slotCalls) :
          ( /\ slotCalls[i].live
            /\ slotCalls[i].doctorId # selectedDoctorId
            /\ \/ SlotsReject(i)
               \/ \E data \in SlotLists(slotCalls[i].doctorId) : SlotsResolve(i, data) )
          => (slots' = slots /\ loadingSlots' = loadingSlots)]_vars

\* C14: whenever the slot request for the currently selected doctor is
\* outstanding, loadingSlots is true.
C14_LoadingWhileOutstanding ==
    (homeMounted /\ \E i \in 1..Len(slotCalls) :
                       slotCalls[i].live /\ slotCalls[i].doctorId = selectedDoctorId)
    => loadingSlots

\* C15: with a slot given, the exported event starts at the slot's
\* start_time and ends duration_minutes later (09:00:00Z and 30 minutes
\* give 09:30:00Z), both written to the second.
C15_EventStartAndEnd ==
    \A k \in 1..Len(icsExports) :
       icsSlot # Absent =>
          LET p  == icsExports[k].payload
              st == icsSlot.start_time
              Seconds(x) == ((x.d * 24 + x.h) * 60 + x.mi) * 60 + x.s
          IN  /\ p.DTSTART = [d |-> st.d, h |-> st.h, mi |-> st.mi, s |-> st.s]
              /\ p.DTEND.h \in 0..23 /\ p.DTEND.mi \in 0..59 /\ p.DTEND.s \in 0..59
              /\ Seconds(p.DTEND) = Seconds(p.DTSTART) + icsSlot.duration_minutes * 60

\* The export of the 09:00:00Z slot of 30 minutes ends at 09:30:00Z.
C15_Witness ==
    /\ icsSlot # Absent
    /\ icsSlot.start_time = Stamp(1, 9, 0, 0, 0)
    /\ icsSlot.duration_minutes = 30
    /\ icsExports # <<>>
    /\ icsExports[1].payload.DTEND = [d |-> 1, h |-> 9, mi |-> 30, s |-> 0]

\* C16: the export is deterministic: the same booking, slot and doctor
\* give identical payloads whenever it is invoked.
C16_ExportDeterministic ==
    \A j, k \in 1..Len(icsExports) : icsExports[j].payload = icsExports[k].payload

\* C17: for a non-2xx response the error of the API client carries the
\* message the backend put in the body when there is one, and a message
\* derived from the status otherwise.
C17_BackendMessageCarried ==
    \A ep \in Endpoints :
       (apiResponse[ep].phase = "done" /\ ~apiResponse[ep].ok) =>
          /\ apiOutcome[ep].kind = "error"
          /\ apiOutcome[ep].message =
                IF apiResponse[ep].message # NULL
                  THEN apiResponse[ep].message
                  ELSE ApiErrorMessage(apiResponse[ep].status)

\* C18: a cache refresh is issued after every successful doctor creation,
\* and none when the creation fails or is refused by the validation.
C18_RefreshAfterCreation ==
    [][/\ \A i \in 1..Len(createCalls) :
             CreateResolve(i) =>
                /\ Len(doctorCalls') = Len(doctorCalls) + 1
                /\ Last(doctorCalls').owner = "admin"
       /\ \A i \in 1..Len(createCalls), e \in RejectValues :
             CreateReject(i, e) => doctorCalls' = doctorCalls
       /\ HandleCreateDoctor => doctorCalls' = doctorCalls]_vars

\* A doctor was created and the refresh that follows is in flight.
C18_Witness ==
    /\ doctorSuccess = "Doctor created successfully!"
    /\ createCalls = <<>>
    /\ \E i \in 1..Len(doctorCalls) : doctorCalls[i].owner = "admin"

\* C19: a Toast on screen, if the user does not dismiss it, has its close
\* handler called once its duration has elapsed since it was shown,
\* whatever re-renders happen in between: it is never on screen later
\* than that, and its timer closes it exactly then.
C19_ClosedWhenDurationElapsed ==
    \A id \in ToastIds :
       /\ toastMounted[id] => now <= toastShownAt[id] + ToastDuration
       /\ (~toastMounted[id] /\ closed[id].by = "timer")
             => closed[id].at = toastShownAt[id] + ToastDuration

\* C20: the timer of a Toast is cancelled when the Toast is removed: no
\* timer is pending for a Toast that is not on screen, no timer callback
\* calls the close handler of a removed Toast, and a Toast has at most one
\* pending timer.
C20_TimerCancelledOnRemoval ==
    /\ \A t \in timers : toastMounted[t.id]
    /\ \A id \in ToastIds :
          /\ ~closed[id].stale
          /\ Cardinality({t \in timers : t.id = id}) <= 1

\* A Toast was dismissed by the user, the time its timer was set for has
\* passed, and another Toast has had its timer restarted by a re-render.
C20_Witness ==
    \E id, other \in ToastIds :
       /\ ~toastMounted[id]
       /\ closed[id].by = "user"
       /\ now >= toastShownAt[id] + ToastDuration
       /\ toastMounted[other]
       /\ \E t \in timers : t.id = other /\ t.due # toastShownAt[other] + ToastDuration

\* C21: refresh is idempotent and without flicker: a refresh that succeeds
\* with the list the cache already holds leaves that list, and while the
\* home page shows the list of an earlier refresh, a refresh that starts
\* does not make the list disappear or change.
C21_RefreshWithoutFlicker ==
    [][/\ \A i \in 1..Len(doctorCalls) :
             DoctorsResolve(i, doctors) => doctors' = doctors
       /\ ( /\ homeMounted /\ homeMounted'
            /\ DoctorPanel.panel = "list" /\ doctors # <<>>
            /\ \E i \in 1..Len(createCalls) : CreateResolve(i) )
          => DoctorPanel' = DoctorPanel]_vars

\* C29: handleCreateSlot sends a network call only when a doctor is
\* selected, the start time is not empty and the duration parses to a
\* positive integer; otherwise it sets a slot error, sends nothing, leaves
\* the creating flag false and leaves the form fields unchanged.
C29_SlotCreationValidated ==
    [][\A tz \in TimeZoneOffsets :
          HandleCreateSlot(tz) =>
             IF /\ slotDoctorId # <<>>
                /\ startTime # <<>>
                /\ ParseInt(durationMinutes) # NaN
                /\ ParseInt(durationMinutes) > 0
             THEN /\ Len(slotCreateCalls') = Len(slotCreateCalls) + 1
                  /\ Last(slotCreateCalls').doctor_id \in DoctorIds
                  /\ Last(slotCreateCalls').duration_minutes > 0
             ELSE /\ Truthy(slotError')
                  /\ slotCreateCalls' = slotCreateCalls
                  /\ ~isCreatingSlot'
                  /\ <<slotDoctorId, startTime, durationMinutes>>' =
                        <<slotDoctorId, startTime, durationMinutes>>]_vars

\* The form was submitted with a doctor, a start time and the duration 0:
\* the duration error is shown and nothing was sent.
C29_Witness ==
    /\ adminMounted
    /\ slotDoctorId # <<>>
    /\ startTime # <<>>
    /\ durationMinutes = <<"0">>
    /\ slotError = "Duration must be a positive number"
    /\ slotCreateCalls = <<>>
    /\ ~isCreatingSlot

\* C22: when the booking call resolves with a Booking of status CONFIRMED
\* the submission ends in Succeeded: the page stores exactly the returned
\* record, its error is none, it is no longer submitting, and one
\* notification of severity success is enqueued.
C22_ConfirmedEndsInSucceeded ==
    [][\A c \in BagToSet(bookCalls) :
          BookResolve(c, "CONFIRMED") =>
             /\ Len(toasts') = Len(toasts) + 1
             /\ Last(toasts').type = "success"
             /\ (c.live =>
                    /\ booking' = {BookingFor(c, "CONFIRMED")}
                    /\ error' = NULL
                    /\ ~isSubmitting')]_vars

\* The page holds a CONFIRMED booking for the request it sent, shows the
\* ticket, and the success notification is queued.
C22_Witness ==
    /\ bpMounted
    /\ booking = {[id |-> 99, slot_id |-> 10, patient_name |-> <<"J">>, status |-> "CONFIRMED"]}
    /\ error = NULL
    /\ showSuccessModal
    /\ toasts = <<[message |-> "Appointment booked successfully!", type |-> "success"]>>

\* C25: a submission is sent to the network only with a resolvable slot
\* id: when the slot id of the route is absent or is not a number,
\* handleSubmit sets an error message, sends nothing and stays Idle.
C25_OnlyResolvableSlotIdSent ==
    [][(HandleSubmit /\ (slotId = "" \/ NumberOf(slotId) = NaN)) =>
          /\ Truthy(error')
          /\ bookCalls' = bookCalls
          /\ ~isSubmitting']_vars

\* C26: a submission whose call settles returns control to the user: the
\* page stops submitting; after a failure no booking is stored, the form
\* with the name that was sent is available again, and submitting it
\* sends a new call.
C26_ControlReturnsAfterSettle ==
    [][/\ \A c \in BagToSet(bookCalls) :
             c.live =>
                /\ \A st \in BookingStatuses : BookResolve(c, st) => ~isSubmitting'
                /\ \A e \in RejectValues :
                      BookReject(c, e) =>
                         /\ ~isSubmitting'
                         /\ booking' = {}
                         /\ SubmitEnabled'
                         /\ name' = name /\ ~NameIsBlank(name')
       /\ (HandleSubmit /\ slotId # "" /\ ~NameIsBlank(name)) =>
             /\ isSubmitting'
             /\ InFlight(bookCalls') = InFlight(bookCalls) + 1]_vars

\* After a failed submission (its error notification is still queued) the
\* form was submitted again: the page is submitting and its call is in
\* flight.
C26_Witness ==
    /\ bpMounted
    /\ isSubmitting
    /\ error = NULL
    /\ InFlight(LiveCalls(bookCalls)) = 1
    /\ InFlight(bookCalls) = 1
    /\ toasts # <<>>
    /\ Last(toasts).type = "error"

\* C28: a submission that reaches the network enqueues exactly one
\* notification when its call settles, success if the call resolved and
\* error if it rejected, also when the page was left meanwhile; a
\* submission stopped by the local validation enqueues none.
C28_OneNotificationPerSubmission ==
    [][/\ \A c \in BagToSet(bookCalls), st \in BookingStatuses :
             BookResolve(c, st) =>
                /\ Len(toasts') = Len(toasts) + 1
                /\ SubSeq(toasts', 1, Len(toasts)) = toasts
                /\ Last(toasts').type = "success"
       /\ \A c \in BagToSet(bookCalls), e \in RejectValues :
             BookReject(c, e) =>
                /\ Len(toasts') = Len(toasts) + 1
                /\ SubSeq(toasts', 1, Len(toasts)) = toasts
                /\ Last(toasts').type = "error"
       /\ HandleSubmit => toasts' = toasts]_vars

\* The page was left and only then did its call settle: no page is
\* mounted, nothing is in flight, one notification is queued.
C28_Witness ==
    /\ ~bpMounted
    /\ InFlight(bookCalls) = 0
    /\ Len(toasts) = 1
    /\ Last(toasts).type = "error"

\* C23: writes of the doctor cache are atomic: the cached list is always
\* the initial empty list or the complete list of one successful
\* getDoctors call, and only the success of a refresh changes it, to
\* exactly the list that call returned.
C23_AtomicCacheWrites ==
    [][/\ doctors' \in DoctorLists
       /\ doctors' # doctors =>
             \E i \in 1..Len(doctorCalls) : DoctorsResolve(i, doctors')]_vars

\* The cache holds the complete two-doctor list while a later refresh,
\* started by the dashboard, is in flight.
C23_Witness ==
    /\ doctors = <<Doctor(1), Doctor(2)>>
    /\ loadingDoctors
    /\ \E i \in 1..Len(doctorCalls) : doctorCalls[i].owner = "admin"

\* C24: selecting a doctor at once, before any response, makes that
\* doctor the selected one, empties the slot list and sets the slot
\* loading flag: no slot is on display right after the selection.
C24_SelectionClearsSlots ==
    [][\A d \in DoctorIds :
          HandleSelectDoctor(d) =>
             /\ selectedDoctorId' = d
             /\ slots' = <<>>
             /\ loadingSlots'
             /\ DisplayedSlots' = <<>>]_vars

\* Doctor 2 was just selected: its request is the only one in flight, the
\* list is empty and the panel shows the loading skeleton.
C24_Witness ==
    /\ homeMounted
    /\ selectedDoctorId = 2
    /\ slotCalls = <<[doctorId |-> 2, live |-> TRUE]>>
    /\ slots = <<>>
    /\ loadingSlots
    /\ SlotPanel = "skeleton"

\* C27: whenever at least one getDoctors call is in flight the loading
\* flag of the cache is true, also when two refreshes overlap and the
\* first settles before the second.
C27_LoadingWhileRefreshing == doctorCalls # <<>> => loadingDoctors

\* C30: refresh never rejects: when the refresh that follows a successful
\* doctor creation fails, the failure becomes the cache error, the
\* creation is still reported as a success (success message set, creation
\* error none, no further notification) and the creating flag, true
\* while that refresh is outstanding, becomes false at that moment.
C30_RefreshFailureIsNotCreationFailure ==
    [][/\ \A i \in 1..Len(doctorCalls), e \in RejectValues :
             (DoctorsReject(i, e) /\ doctorCalls[i].owner = "admin" /\ doctorCalls[i].live) =>
                /\ errorDoctors' = DoctorsErrorMessage(e)
                /\ doctorSuccess' = "Doctor created successfully!"
                /\ doctorError' = NULL
                /\ toasts' = toasts
                /\ isCreatingDoctor /\ ~isCreatingDoctor'
       /\ (\E i \in 1..Len(doctorCalls') :
              doctorCalls'[i].owner = "admin" /\ doctorCalls'[i].live)
          => isCreatingDoctor']_vars

\* The dashboard after a creation whose refresh failed with HTTP 409: the
\* success message is shown, there is no creation error, the cache holds
\* the error and the form is enabled again.
C30_Witness ==
    /\ adminMounted
    /\ doctorSuccess = "Doctor created successfully!"
    /\ doctorError = NULL
    /\ errorDoctors = ApiErrorMessage(409)
    /\ ~isCreatingDoctor
    /\ doctorCalls = <<>>
    /\ createCalls = <<>>

====
